---- MODULE Spec2Model ----
(***************************************************************************)
(* VibeWriter: the post-generation engine (src/src/generator.py) and the   *)
(* output sanitizer (src/src/utils.py).                                    *)
(*                                                                         *)
(* A Python str is modelled as a sequence of characters; a character is a  *)
(* one-character string, except U+2026 (horizontal ellipsis) and U+00B7    *)
(* (middle dot), which are written ELLIPSIS and MIDDOT.                    *)
(***************************************************************************)
EXTENDS Integers, Sequences, FiniteSets

VARIABLES
    pc,            \* position inside generate_posts
    topic,         \* argument topic
    variants,      \* argument variants (the requested count, any integer)
    open_links,    \* argument open_links
    llm,           \* the text backend: the set of strings generate_text may return
    fetcher,       \* the image fetcher: the pool its search() returns
    image_pool,    \* local image_pool
    search_log,    \* the calls made to image_fetcher.search, in order
    idx,           \* loop variable of the slot loop
    attempt,       \* loop variable of the attempt loop
    text,          \* local text of the current slot
    candidate,     \* local candidate: the sanitized text of the latest attempt
    seen_texts,    \* local seen_texts
    results,       \* local results
    slot_calls,    \* generate_text calls made for the current slot
    total_calls,   \* generate_text calls made during the whole call
    suffix_trials, \* suffix candidates built by the final guard of the last slot
    exhausted,     \* some slot's final guard tried all its suffixes in vain
    last_call,     \* the arguments of the latest generate_text call
    san_pc,        \* position of the sanitizer harness
    san_x,         \* sanitizer harness: the raw input
    san_n,         \* sanitizer harness: max_chars
    san_y,         \* safe_clean_output(san_x, san_n)
    san_z,         \* safe_clean_output(san_y, san_n)
    sug_pc,        \* position of the SuggestionFetcher.search call
    sug_query,     \* SuggestionFetcher.search: argument query
    sug_limit,     \* SuggestionFetcher.search: argument limit
    sug_links,     \* SuggestionFetcher.search: argument open_links
    sug_results    \* SuggestionFetcher.search: the list returned

gen_vars == <<pc, topic, variants, open_links, llm, fetcher, image_pool,
              search_log, idx, attempt, text, candidate, seen_texts, results,
              slot_calls, total_calls, suffix_trials, exhausted, last_call>>
san_vars == <<san_pc, san_x, san_n, san_y, san_z>>
sug_vars == <<sug_pc, sug_query, sug_limit, sug_links, sug_results>>
vars == <<gen_vars, san_vars, sug_vars>>

(***************************************************************************)
(* Characters and character classes (Python str / re semantics).           *)
(***************************************************************************)
ELLIPSIS == "ELLIPSIS"
MIDDOT == "MIDDOT"
\* None, kept apart from every str
None == <<"None">>

UpperCase == <<"A","B","C","D","E","F","G","H","I","J","K","L","M",
               "N","O","P","Q","R","S","T","U","V","W","X","Y","Z">>
LowerCase == <<"a","b","c","d","e","f","g","h","i","j","k","l","m",
               "n","o","p","q","r","s","t","u","v","w","x","y","z">>
DigitChars == <<"0","1","2","3","4","5","6","7","8","9">>

Range(f) == {f[i] : i \in DOMAIN f}
MaxOf(S) == CHOOSE m \in S : \A k \in S : k <= m

Letters == Range(UpperCase) \cup Range(LowerCase)
Digits == Range(DigitChars)
Spaces == {" ", "\t", "\n", "\r"}
WordChars == Letters \cup Digits \cup {"_"}
\* str.lower(), one character, for the characters it changes
LowerOf == [c \in Range(UpperCase) |-> LowerCase[CHOOSE i \in 1..26 : UpperCase[i] = c]]

IsAlpha(c) == c \in Letters
IsDigit(c) == c \in Digits
\* \s and str.strip(): whitespace
IsSpace(c) == c \in Spaces
\* \w: a letter, a digit or the underscore
IsWord(c) == c \in WordChars

\* str.lower(), one character
Lower(c) == IF c \in DOMAIN LowerOf THEN LowerOf[c] ELSE c
\* str.lower()
LowerStr(s) == [i \in 1..Len(s) |-> Lower(s[i])]

\* F(x), with x evaluated once before F is applied to its value
Pipe(x, F(_)) == CHOOSE r \in {F(v) : v \in {x}} : TRUE

\* s[n:]
Drop(s, n) == SubSeq(s, n + 1, Len(s))
\* s[:n]
Take(s, n) == SubSeq(s, 1, n)

\* the last index of the longest run of characters satisfying P that starts
\* at p (p - 1 when there is none): what a greedy P* consumes
RunEnd(s, p, P(_)) ==
    IF \E q \in p..Len(s) : ~P(s[q])
    THEN (CHOOSE q \in p..Len(s) : ~P(s[q]) /\ \A k \in p..(q - 1) : P(s[k])) - 1
    ELSE Len(s)

\* str.lstrip(), str.rstrip(), str.strip()
LStrip(s) == Drop(s, RunEnd(s, 1, IsSpace))
RStrip(s) ==
    IF \E q \in 1..Len(s) : ~IsSpace(s[q])
    THEN Take(s, CHOOSE q \in 1..Len(s) :
                    ~IsSpace(s[q]) /\ \A k \in (q + 1)..Len(s) : IsSpace(s[k]))
    ELSE <<>>
Strip(s) == Pipe(RStrip(s), LStrip)

\* str(n) for n >= 0: the decimal digits
RECURSIVE IntToStr(_)
IntToStr(n) ==
    IF n < 10 THEN <<DigitChars[n + 1]>>
    ELSE IntToStr(n \div 10) \o <<DigitChars[(n % 10) + 1]>>

(***************************************************************************)
(* src/src/utils.py                                                        *)
(***************************************************************************)
\* re.sub(r"^\[[^\]]+\]\s*", "", text): the index of the last character of
\* the match at the start of s, 0 when there is no match
NotClosing(c) == c # "]"
MarkerEnd(s) ==
    IF Len(s) >= 3 /\ s[1] = "[" /\ s[2] # "]" /\ \E j \in 3..Len(s) : s[j] = "]"
    THEN RunEnd(s, RunEnd(s, 2, NotClosing) + 2, IsSpace)
    ELSE 0
StripMarker(s) == Drop(s, MarkerEnd(s))

\* r"\s*->\s*Example caption:\s*", re.IGNORECASE
ARROW_LABEL == <<"e","x","a","m","p","l","e"," ","c","a","p","t","i","o","n",":">>
\* the pattern without its trailing \s*
ArrowEndNoTrailingSpace(s, p) ==
    LET a == RunEnd(s, p, IsSpace) + 1
        b == RunEnd(s, a + 2, IsSpace) + 1
        n == Len(ARROW_LABEL)
    IN  IF /\ a + 1 <= Len(s)
           /\ s[a] = "-"
           /\ s[a + 1] = ">"
           /\ b + n - 1 <= Len(s)
           /\ \A i \in 1..n : Lower(s[b + i - 1]) = ARROW_LABEL[i]
        THEN b + n - 1
        ELSE 0
\* the index of the last character of a match starting at p, 0 when none
ArrowEnd(s, p) ==
    LET a == RunEnd(s, p, IsSpace) + 1
        b == RunEnd(s, a + 2, IsSpace) + 1
        n == Len(ARROW_LABEL)
    IN  IF /\ a + 1 <= Len(s)
           /\ s[a] = "-"
           /\ s[a + 1] = ">"
           /\ b + n - 1 <= Len(s)
           /\ \A i \in 1..n : Lower(s[b + i - 1]) = ARROW_LABEL[i]
        THEN RunEnd(s, b + n, IsSpace)
        ELSE 0

\* re.sub(pattern, repl, text) for a pattern that never matches the empty
\* string: End(s, p) is the end of the match starting at p (0: none), the
\* leftmost non-overlapping matches are replaced, left to right
RECURSIVE SubFrom(_, _, _, _)
SubFrom(s, p, End(_, _), repl) ==
    IF p > Len(s) THEN <<>>
    ELSE LET e == End(s, p)
         IN  IF e > 0 THEN repl \o SubFrom(s, e + 1, End, repl)
             ELSE <<s[p]>> \o SubFrom(s, p + 1, End, repl)
Sub(s, End(_, _), repl) ==
    IF \E p \in 1..Len(s) : End(s, p) > 0 THEN SubFrom(s, 1, End, repl) ELSE s

StripArrow(s) == Sub(s, ArrowEnd, <<>>)

\* r"[A-Za-z0-9._%+-]+@[A-Za-z0-9.-]+\.[A-Za-z]{2,}"
EmailLocalChars == Letters \cup Digits \cup {".", "_", "%", "+", "-"}
EmailDomainChars == Letters \cup Digits \cup {".", "-"}
IsEmailLocal(c) == c \in EmailLocalChars
IsEmailDomain(c) == c \in EmailDomainChars
EmailEnd(s, p) ==
    LET le == RunEnd(s, p, IsEmailLocal)
        q == le + 2
        de == RunEnd(s, q, IsEmailDomain)
        dots == {d \in (q + 1)..de :
                    /\ s[d] = "."
                    /\ d + 2 <= Len(s)
                    /\ IsAlpha(s[d + 1])
                    /\ IsAlpha(s[d + 2])}
    IN  IF le < p \/ le + 1 > Len(s) THEN 0
        ELSE IF s[le + 1] # "@" THEN 0
        ELSE IF dots = {} THEN 0
        ELSE RunEnd(s, MaxOf(dots) + 1, IsAlpha)

\* r"\b\+?[0-9][0-9\-\s]{6,}[0-9]\b"
PhoneMidChars == Digits \cup {"-"} \cup Spaces
IsPhoneMid(c) == c \in PhoneMidChars
PhoneEnd(s, p) ==
    LET plus == s[p] = "+"
        d0 == IF plus THEN p + 1 ELSE p
        startsOk == IF plus
                    THEN p > 1 /\ IsWord(s[p - 1]) /\ d0 <= Len(s) /\ IsDigit(s[d0])
                    ELSE IsDigit(s[p]) /\ (p = 1 \/ ~IsWord(s[p - 1]))
        me == RunEnd(s, d0 + 1, IsPhoneMid)
        ends == {e \in (d0 + 7)..me :
                    IsDigit(s[e]) /\ (e = Len(s) \/ ~IsWord(s[e + 1]))}
    IN  IF ~startsOk THEN 0
        ELSE IF ends = {} THEN 0
        ELSE MaxOf(ends)

EMAIL_TOKEN == <<"[","e","m","a","i","l","]">>
PHONE_TOKEN == <<"[","p","h","o","n","e","]">>

SubEmail(s) == Sub(s, EmailEnd, EMAIL_TOKEN)
SubPhone(s) == Sub(s, PhoneEnd, PHONE_TOKEN)
scrub_pii(s) == Pipe(SubEmail(s), SubPhone)

PROFANITY_WORDS == << <<"d","a","m","n">>, <<"s","h","i","t">>, <<"f","u","c","k">> >>

\* mask(word), applied in place to the characters of s at p..p+n-1
mask(word) ==
    IF Len(word) <= 2 THEN [i \in 1..Len(word) |-> "*"]
    ELSE [i \in 1..Len(word) |-> IF i = 1 \/ i = Len(word) THEN word[i] ELSE "*"]

\* rf"\b{w}\b", re.IGNORECASE: a match of w starts at p
WordAt(s, p, w) ==
    /\ p + Len(w) - 1 <= Len(s)
    /\ \A i \in 1..Len(w) : Lower(s[p + i - 1]) = w[i]
    /\ (p = 1 \/ ~IsWord(s[p - 1]))
    /\ (p + Len(w) - 1 = Len(s) \/ ~IsWord(s[p + Len(w)]))

\* pattern.sub(repl, text) for one word w
RECURSIVE MaskWordFrom(_, _, _)
MaskWordFrom(s, p, w) ==
    IF p > Len(s) THEN <<>>
    ELSE IF WordAt(s, p, w)
         THEN mask(SubSeq(s, p, p + Len(w) - 1)) \o MaskWordFrom(s, p + Len(w), w)
         ELSE <<s[p]>> \o MaskWordFrom(s, p + 1, w)
MaskWord(s, w) ==
    IF \E p \in 1..Len(s) : WordAt(s, p, w) THEN MaskWordFrom(s, 1, w) ELSE s

RECURSIVE MaskWords(_, _)
MaskWords(s, k) ==
    IF k > Len(PROFANITY_WORDS) THEN s
    ELSE Pipe(MaskWord(s, PROFANITY_WORDS[k]), LAMBDA m : MaskWords(m, k + 1))
minimal_profanity_filter(s) == MaskWords(s, 1)

\* truncate_text keeping max_chars characters before the ellipsis
truncate_text_unreserved(s, max_chars) ==
    IF max_chars <= 0 THEN <<>>
    ELSE IF Len(s) <= max_chars THEN s
    ELSE RStrip(Take(s, max_chars)) \o <<ELLIPSIS>>
truncate_text(s, max_chars) ==
    IF max_chars <= 0 THEN <<>>
    ELSE IF Len(s) <= max_chars THEN s
    ELSE RStrip(Take(s, max_chars - 1)) \o <<ELLIPSIS>>

\* safe_clean_output before its last step (truncate_text)
CleanUntruncated(s) ==
    Pipe(Pipe(Pipe(Pipe(StripMarker(s), Strip), StripArrow), scrub_pii),
         minimal_profanity_filter)

safe_clean_output(s, max_chars) ==
    Pipe(CleanUntruncated(s), LAMBDA t : truncate_text(t, max_chars))

(***************************************************************************)
(* src/src/generator.py                                                    *)
(***************************************************************************)
MAX_ATTEMPTS == 4
SUFFIX_TRIALS == 4
CAPTION_MAX_CHARS == 220
FALLBACK_MAX_CHARS == 210
ATTEMPT_MAX_TOKENS == 140
FALLBACK_MAX_TOKENS == 120
STYLE_CUES == 10
ALT_INSTRUCTIONS == 4

\* re.sub(r"\s+", " ", s)
RECURSIVE CollapseFrom(_, _)
CollapseFrom(s, p) ==
    IF p > Len(s) THEN <<>>
    ELSE IF IsSpace(s[p])
         THEN <<" ">> \o CollapseFrom(s, RunEnd(s, p, IsSpace) + 1)
         ELSE <<s[p]>> \o CollapseFrom(s, p + 1)
CollapseSpaces(s) ==
    IF \E i \in 1..Len(s) :
           IsSpace(s[i]) /\ (s[i] # " " \/ (i < Len(s) /\ IsSpace(s[i + 1])))
    THEN CollapseFrom(s, 1)
    ELSE s

normalize_for_uniqueness(s) ==
    Pipe(Pipe(Pipe(StripMarker(s), Strip), LowerStr), CollapseSpaces)

\* range(max(1, variants)) without the coercion
NumSlotsUncoerced(v) == v
\* range(max(1, variants))
NumSlots(v) == IF v < 1 THEN 1 ELSE v

\* range(4) running one pass too many
MoreAttemptsOffByOne(a) == a <= MAX_ATTEMPTS
\* range(4): the attempt loop has a pass for a
MoreAttempts(a) == a < MAX_ATTEMPTS

\* the prompt of a call, as far as the backend contract goes: which template,
\* which style cue and which variation instruction
diversify_prompt(tp, i, a) ==
    [kind |-> "diversified", topic |-> Strip(tp),
     cue |-> i % STYLE_CUES, alt |-> a % ALT_INSTRUCTIONS]
build_prompt(tp) ==
    [kind |-> "generic", topic |-> Strip(tp), cue |-> -1, alt |-> -1]

\* llm.generate_text(prompt, max_tokens): the strings the backend may return.
\* A backend either answers any of its texts on any call, or plays a script
\* by the number of calls already made.
GenerateText(backend, calls) ==
    IF backend.kind = "script"
    THEN {backend.script[(calls % Len(backend.script)) + 1]}
    ELSE backend.texts

\* image_fetcher.search(query, limit, open_links)
min(a, b) == IF a < b THEN a ELSE b
FetcherSearch(f, query, limit, links) ==
    IF f.kind = "fixed" THEN f.items
    ELSE [i \in 1..min(limit, Len(f.items)) |->
            [query |-> f.items[i].query,
             url |-> IF links THEN f.items[i].url ELSE None]]

\* lines 75-77 with the query stripped as the prompts' topic is
SearchArgsStripped(tp, v, links) ==
    [query |-> Strip(tp), limit |-> NumSlots(v), open_links |-> links]
\* lines 75-77: the arguments of image_fetcher.search
SearchArgs(tp, v, links) ==
    [query |-> tp, limit |-> NumSlots(v), open_links |-> links]

\* line 89 without the test for an empty fingerprint
AcceptCandidateAllowsEmpty(norm, seen) == norm \notin seen
\* line 89: the attempt's candidate is accepted
AcceptCandidate(norm, seen) == norm # <<>> /\ norm \notin seen

\* line 96 without the tag
FallbackTextUntagged(fallback, i) == fallback
\* line 96
FallbackText(fallback, i) == fallback \o <<" ", "#">> \o IntToStr(i + 1)

\* lines 100-106 with the index clamped to the pool instead of cycling
ImageForClamped(pool, i, image_query) ==
    IF Len(pool) > 0
    THEN [image_query |-> pool[min(i, Len(pool) - 1) + 1].query,
          image_url |-> pool[min(i, Len(pool) - 1) + 1].url]
    ELSE [image_query |-> image_query, image_url |-> None]
\* lines 100-106 with no query in the no-pool branch
ImageForNoQuery(pool, i, image_query) ==
    IF Len(pool) > 0
    THEN [image_query |-> pool[(i % Len(pool)) + 1].query,
          image_url |-> pool[(i % Len(pool)) + 1].url]
    ELSE [image_query |-> None, image_url |-> None]
\* lines 100-106
ImageFor(pool, i, image_query) ==
    IF Len(pool) > 0
    THEN [image_query |-> pool[(i % Len(pool)) + 1].query,
          image_url |-> pool[(i % Len(pool)) + 1].url]
    ELSE [image_query |-> image_query, image_url |-> None]

\* line 115 without the special case of the first trial
SuffixCandidateAlwaysNumbered(t, i, k) ==
    t \o <<" ", MIDDOT, " ", "v">> \o IntToStr(i + 1) \o <<".">> \o IntToStr(k)
\* line 115
SuffixCandidate(t, i, k) ==
    t \o <<" ", MIDDOT, " ", "v">> \o IntToStr(i + 1)
      \o (IF k = 1 THEN <<>> ELSE <<".">> \o IntToStr(k))

\* line 111 with the guard skipped
GuardNeverFires(norm_text, seen) == FALSE
\* line 111
GuardFires(norm_text, seen) == norm_text \in seen
\* line 117 with the test inverted
SuffixFreshInverted(norm_candidate, seen) == norm_candidate \in seen
\* line 117
SuffixFresh(norm_candidate, seen) == norm_candidate \notin seen

\* lines 110-121: the text emitted for slot i, the fingerprint recorded, the
\* number of suffix candidates built, and whether all of them collided
\* lines 114-120: the suffix loop, from trial k on
RECURSIVE SuffixLoop(_, _, _, _, _)
SuffixLoop(t, norm_text, i, seen, k) ==
    IF k > SUFFIX_TRIALS
    THEN [text |-> t, norm |-> norm_text,
          trials |-> SUFFIX_TRIALS, exhausted |-> TRUE]
    ELSE Pipe(SuffixCandidate(t, i, k), LAMBDA candidate_text :
         Pipe(normalize_for_uniqueness(candidate_text), LAMBDA norm_candidate :
            IF SuffixFresh(norm_candidate, seen)
            THEN [text |-> candidate_text, norm |-> norm_candidate,
                  trials |-> k, exhausted |-> FALSE]
            ELSE SuffixLoop(t, norm_text, i, seen, k + 1)))
FinalGuard(t, i, seen) ==
    Pipe(normalize_for_uniqueness(t), LAMBDA norm_text :
        IF GuardFires(norm_text, seen)
        THEN SuffixLoop(t, norm_text, i, seen, 1)
        ELSE [text |-> t, norm |-> norm_text, trials |-> 0, exhausted |-> FALSE])

(***************************************************************************)
(* src/src/image_fetcher.py                                                *)
(***************************************************************************)
\* SuggestionFetcher.SUGGESTIONS
SUGGESTIONS == <<
    <<"p","r","o","d","u","c","t"," ","f","l","a","t","l","a","y">>,
    <<"h","a","p","p","y"," ","c","u","s","t","o","m","e","r","s">>,
    <<"l","i","f","e","s","t","y","l","e"," ","c","o","f","f","e","e"," ","s","h","o","p">>,
    <<"d","i","s","c","o","u","n","t"," ","b","a","n","n","e","r">>,
    <<"s","e","a","s","o","n","a","l"," ","p","r","o","m","o"," ","g","r","a","p","h","i","c">>,
    <<"c","l","o","s","e","-","u","p"," ","e","s","p","r","e","s","s","o">> >>

\* urllib.parse.quote_plus, one character: the unreserved characters stay, a
\* space becomes "+", another character becomes its percent escape
QuoteSafeChars == Letters \cup Digits \cup {"_", ".", "-", "~"}
PercentEscapes ==
    [c \in {"!", "#", "%", "&", "+", "/", ":", "=", "?", "@"} |->
        CASE c = "!" -> <<"%","2","1">>
          [] c = "#" -> <<"%","2","3">>
          [] c = "%" -> <<"%","2","5">>
          [] c = "&" -> <<"%","2","6">>
          [] c = "+" -> <<"%","2","B">>
          [] c = "/" -> <<"%","2","F">>
          [] c = ":" -> <<"%","3","A">>
          [] c = "=" -> <<"%","3","D">>
          [] c = "?" -> <<"%","3","F">>
          [] c = "@" -> <<"%","4","0">>]
QuoteChar(c) ==
    IF c \in QuoteSafeChars THEN <<c>>
    ELSE IF c = " " THEN <<"+">>
    ELSE PercentEscapes[c]
RECURSIVE quote_plus(_)
quote_plus(s) == IF s = <<>> THEN <<>> ELSE QuoteChar(Head(s)) \o quote_plus(Tail(s))

\* line 74
PLACEHOLDER_PREFIX == <<"h","t","t","p","s",":","/","/","p","i","c","s","u","m",".","p","h","o","t","o","s","/","s","e","e","d","/">>
PLACEHOLDER_SUFFIX == <<"/","8","0","0","/","6","0","0">>
placeholder_url(pick) == PLACEHOLDER_PREFIX \o quote_plus(pick) \o PLACEHOLDER_SUFFIX

\* lines 69-77 with the flag ignored
SuggestionUrlAlwaysLinked(pick, links) == placeholder_url(pick)
\* lines 69-77: the url of the entry built for pick
SuggestionUrl(pick, links) == IF links THEN placeholder_url(pick) ELSE None

\* line 66: k = min(limit, len(self.SUGGESTIONS))
SampleSize(limit) == min(limit, Len(SUGGESTIONS))
\* random.sample(population, k): the selections of k positions of the
\* population without replacement, in every order.  The generator is seeded
\* with hash(query), which differs from one interpreter run to the next, so
\* any of them may come out.
Samples ==
    [k \in 0..Len(SUGGESTIONS) |->
        {f \in [1..k -> 1..Len(SUGGESTIONS)] :
            \A i, j \in 1..k : i # j => f[i] # f[j]}]
\* random.sample raises ValueError for a negative k
SampleRaises(limit) == SampleSize(limit) < 0

\* lines 64-77: the lists search may return
SuggestionSearch(query, limit, links) ==
    {[i \in 1..SampleSize(limit) |->
        [query |-> SUGGESTIONS[picks[i]],
         url |-> SuggestionUrl(SUGGESTIONS[picks[i]], links)]] :
     picks \in Samples[SampleSize(limit)]}

SugIdle ==
    /\ sug_pc = "off"
    /\ sug_query = <<>>
    /\ sug_limit = 0
    /\ sug_links = FALSE
    /\ sug_results = <<>>

(***************************************************************************)
(* The inputs of one generate_posts call.                                  *)
(***************************************************************************)
MaxVariants == 5
MaxPool == 2
LongLen == 230

\* tests/test_generator.py, DummyLLM
DUMMY_TEXT == <<"B","u","y"," ","n","o","w"," ","a","n","d"," ","s","a","v","e","!",
                " ","#","D","e","a","l"," ","#","C","o","f","f","e","e">>
\* a stub marker and nothing else: a non-empty text whose fingerprint is empty
MARKER_ONLY == <<"[","G","e","m","i","n","i"," ","S","T","U","B","]"," ">>
\* a text longer than every limit, a space every eleventh character
LongText == [i \in 1..LongLen |-> IF i % 11 = 10 THEN " " ELSE "a"]
SHORT_X == <<"x">>
FreeTexts == {<<"x"," ","#","2">>,
              <<"[","G","e","m","i","n","i"," ","S","T","U","B","]"," ","X">>}
\* a backend that answers the suffixed forms of SHORT_X the final guard of
\* slot SUFFIX_TRIALS will try, and then SHORT_X itself
CollideScript ==
    [k \in 1..SUFFIX_TRIALS |-> SuffixCandidate(SHORT_X, SUFFIX_TRIALS, k)]
        \o <<SHORT_X>>

AnyOf(texts) == [kind |-> "any", texts |-> texts, script |-> <<>>]
Backends ==
    {AnyOf({t}) : t \in {DUMMY_TEXT, <<>>, MARKER_ONLY, LongText}}
        \cup {AnyOf(FreeTexts)}
        \cup {[kind |-> "script", texts |-> {}, script |-> CollideScript]}

PoolItems ==
    [i \in 1..MaxPool |->
        [query |-> <<"q">> \o IntToStr(i), url |-> <<"u">> \o IntToStr(i)]]
\* a fetcher that finds nothing, one that always returns a single item, and
\* one that returns the first `limit` of its items
Fetchers ==
    {[kind |-> "fixed", items |-> Take(PoolItems, n)] : n \in 0..1}
        \cup {[kind |-> "limited", items |-> PoolItems]}

Topics == {<<" ","b","f"," ">>}

NoCall == [kind |-> "none", topic |-> <<>>, cue |-> -1, alt |-> -1, max_tokens |-> 0]

SanIdle ==
    /\ san_pc = "off"
    /\ san_x = <<>>
    /\ san_n = 0
    /\ san_y = <<>>
    /\ san_z = <<>>

\* the arguments of llm.generate_text(prompt, max_tokens=...)
LlmCall(prompt, max_tokens) ==
    [kind |-> prompt.kind, topic |-> prompt.topic, cue |-> prompt.cue,
     alt |-> prompt.alt, max_tokens |-> max_tokens]

\* the state at the entry of generate_posts (lines 35-36)
Init ==
    /\ pc = "search"
    /\ topic \in Topics
    /\ variants \in (-1)..MaxVariants
    /\ open_links \in BOOLEAN
    /\ llm \in Backends
    /\ fetcher \in Fetchers
    /\ image_pool = <<>>
    /\ search_log = <<>>
    /\ idx = 0
    /\ attempt = 0
    /\ text = <<>>
    /\ candidate = <<>>
    /\ seen_texts = {}
    /\ results = <<>>
    /\ slot_calls = 0
    /\ total_calls = 0
    /\ suffix_trials = 0
    /\ exhausted = FALSE
    /\ last_call = NoCall
    /\ SanIdle
    /\ SugIdle

\* lines 75-81: fetch the pool once, enter the slot loop
Search ==
    /\ pc = "search"
    /\ \E args \in {SearchArgs(topic, variants, open_links)} :
         /\ image_pool' = FetcherSearch(fetcher, args.query, args.limit, args.open_links)
         /\ search_log' = Append(search_log, args)
    /\ idx' = 0
    /\ attempt' = 0
    /\ text' = <<>>
    /\ slot_calls' = 0
    /\ pc' = IF 0 < NumSlots(variants) THEN "attempt" ELSE "done"
    /\ UNCHANGED <<topic, variants, open_links, llm, fetcher, candidate, seen_texts,
                   results, total_calls, suffix_trials, exhausted, last_call,
                   san_vars, sug_vars>>

\* lines 84-92, one pass of the attempt loop whose candidate is accepted
AttemptAccept ==
    /\ pc = "attempt"
    /\ MoreAttempts(attempt)
    /\ \E raw \in GenerateText(llm, total_calls) :
         /\ candidate' = safe_clean_output(raw, CAPTION_MAX_CHARS)
         /\ \E norm \in {normalize_for_uniqueness(candidate')} :
             /\ AcceptCandidate(norm, seen_texts)
             /\ text' = candidate'
             /\ seen_texts' = seen_texts \cup {norm}
    /\ last_call' = LlmCall(diversify_prompt(topic, idx, attempt), ATTEMPT_MAX_TOKENS)
    /\ slot_calls' = slot_calls + 1
    /\ total_calls' = total_calls + 1
    /\ pc' = "after_attempts"
    /\ UNCHANGED <<topic, variants, open_links, llm, fetcher, image_pool, search_log,
                   idx, attempt, results, suffix_trials, exhausted, san_vars, sug_vars>>

\* lines 84-92, one pass of the attempt loop whose candidate is rejected
AttemptReject ==
    /\ pc = "attempt"
    /\ MoreAttempts(attempt)
    /\ \E raw \in GenerateText(llm, total_calls) :
         /\ candidate' = safe_clean_output(raw, CAPTION_MAX_CHARS)
         /\ \E norm \in {normalize_for_uniqueness(candidate')} :
             ~AcceptCandidate(norm, seen_texts)
    /\ last_call' = LlmCall(diversify_prompt(topic, idx, attempt), ATTEMPT_MAX_TOKENS)
    /\ slot_calls' = slot_calls + 1
    /\ total_calls' = total_calls + 1
    /\ attempt' = attempt + 1
    /\ pc' = IF MoreAttempts(attempt + 1) THEN "attempt" ELSE "after_attempts"
    /\ UNCHANGED <<topic, variants, open_links, llm, fetcher, image_pool, search_log,
                   idx, text, seen_texts, results, suffix_trials, exhausted, san_vars, sug_vars>>

\* lines 93-97: no attempt gave a text, ask once more with the generic prompt
Fallback ==
    /\ pc = "after_attempts"
    /\ text = <<>>
    /\ \E raw \in GenerateText(llm, total_calls) :
         \E fallback \in {safe_clean_output(raw, FALLBACK_MAX_CHARS)} :
             text' = FallbackText(fallback, idx)
    /\ last_call' = LlmCall(build_prompt(topic), FALLBACK_MAX_TOKENS)
    /\ slot_calls' = slot_calls + 1
    /\ total_calls' = total_calls + 1
    /\ pc' = "finish"
    /\ UNCHANGED <<topic, variants, open_links, llm, fetcher, image_pool, search_log,
                   idx, attempt, candidate, seen_texts, results, suffix_trials,
                   exhausted, san_vars, sug_vars>>

\* line 93 when an attempt gave a text
KeepText ==
    /\ pc = "after_attempts"
    /\ text # <<>>
    /\ pc' = "finish"
    /\ UNCHANGED <<topic, variants, open_links, llm, fetcher, image_pool, search_log,
                   idx, attempt, text, candidate, seen_texts, results, slot_calls,
                   total_calls, suffix_trials, exhausted, last_call, san_vars,
                   sug_vars>>

\* lines 99-127 and the loop header of line 81: assign the image, run the
\* final guard, append the variant, go to the next slot or leave the loop
FinishSlot ==
    /\ pc = "finish"
    /\ \E image \in {ImageFor(image_pool, idx, topic)} :
       \E guard \in {FinalGuard(text, idx, seen_texts)} :
           /\ seen_texts' = seen_texts \cup {guard.norm}
           /\ results' = Append(results,
                  [text |-> guard.text,
                   image_query |-> image.image_query,
                   image_url |-> image.image_url])
           /\ suffix_trials' = guard.trials
           /\ exhausted' = (exhausted \/ guard.exhausted)
    /\ idx' = idx + 1
    /\ attempt' = 0
    /\ text' = <<>>
    /\ slot_calls' = IF idx + 1 < NumSlots(variants) THEN 0 ELSE slot_calls
    /\ pc' = IF idx + 1 < NumSlots(variants) THEN "attempt" ELSE "done"
    /\ UNCHANGED <<topic, variants, open_links, llm, fetcher, image_pool, search_log,
                   candidate, total_calls, last_call, san_vars, sug_vars>>

Next == Search \/ AttemptAccept \/ AttemptReject \/ Fallback \/ KeepText \/ FinishSlot

Spec == Init /\ [][Next]_vars

\* generate_posts runs to completion: a single thread, no step waits on another
FairSpec == Spec /\ WF_vars(Next)

(***************************************************************************)
(* generate_posts called again after it returned.                          *)
(***************************************************************************)
\* line 36 with the set kept from the call before
NewSeenTextsCarriedOver == seen_texts
\* line 36: seen_texts of a call that begins
NewSeenTexts == {}

\* lines 28-36: the caller, holding the result of one call, calls again with
\* the same topic, backend, fetcher and flag and any count
CallAgain ==
    /\ pc = "done"
    /\ pc' = "search"
    /\ variants' \in (-1)..MaxVariants
    /\ results' = <<>>
    /\ seen_texts' = NewSeenTexts
    /\ image_pool' = <<>>
    /\ search_log' = <<>>
    /\ idx' = 0
    /\ attempt' = 0
    /\ text' = <<>>
    /\ candidate' = <<>>
    /\ slot_calls' = 0
    /\ total_calls' = 0
    /\ suffix_trials' = 0
    /\ exhausted' = FALSE
    /\ last_call' = NoCall
    /\ UNCHANGED <<topic, open_links, llm, fetcher, san_vars, sug_vars>>

NextCall == Next \/ CallAgain

CallsSpec == Init /\ [][NextCall]_vars

(***************************************************************************)
(* The sanitizer on its own: safe_clean_output applied once and twice.     *)
(***************************************************************************)
SanMaxTokens == 2
SanMaxChars == 12
DEFAULT_MAX_CHARS == 500

SanTokens == <<
    <<"[","a","]">>,
    <<" ">>,
    <<"a","b">>,
    <<"x","@","y",".","i","o">>,
    <<"d","a","m","n">>,
    <<"1","2","3","4","5","6","7","8">>,
    <<"-",">"," ","E","x","a","m">>,
    <<"p","l","e"," ","c","a","p","t","i","o","n",":"," ","a","b">>,
    <<"-",">"," ","E","x","a","m","-",">"," ","e","x","a","m","p","l","e"," ",
      "C","a","p","t","i","o","n",":","p","l","e"," ","c","a","p","t","i","o","n",":","x">>,
    <<"[","b","]"," ","a","b">>,
    <<"S","h","i","t"," "," ","a","b">> >>

RECURSIVE Concat(_)
Concat(ts) == IF ts = <<>> THEN <<>> ELSE SanTokens[Head(ts)] \o Concat(Tail(ts))

SanInputs ==
    {Concat(ts) : ts \in UNION {[1..k -> DOMAIN SanTokens] : k \in 0..SanMaxTokens}}

SanInit ==
    /\ san_pc = "raw"
    /\ san_x \in SanInputs
    /\ san_n \in ((-1)..SanMaxChars) \cup {DEFAULT_MAX_CHARS}
    /\ san_y = <<>>
    /\ san_z = <<>>
    /\ pc = "off"
    /\ topic = <<>>
    /\ variants = 0
    /\ open_links = FALSE
    /\ llm = AnyOf({})
    /\ fetcher = [kind |-> "fixed", items |-> <<>>]
    /\ image_pool = <<>>
    /\ search_log = <<>>
    /\ idx = 0
    /\ attempt = 0
    /\ text = <<>>
    /\ candidate = <<>>
    /\ seen_texts = {}
    /\ results = <<>>
    /\ slot_calls = 0
    /\ total_calls = 0
    /\ suffix_trials = 0
    /\ exhausted = FALSE
    /\ last_call = NoCall
    /\ SugIdle

SanClean ==
    /\ san_pc = "raw"
    /\ san_y' = safe_clean_output(san_x, san_n)
    /\ san_pc' = "once"
    /\ UNCHANGED <<san_x, san_n, san_z, gen_vars, sug_vars>>

SanCleanAgain ==
    /\ san_pc = "once"
    /\ san_z' = safe_clean_output(san_y, san_n)
    /\ san_pc' = "twice"
    /\ UNCHANGED <<san_x, san_n, san_y, gen_vars, sug_vars>>

SanNext == SanClean \/ SanCleanAgain

SanSpec == SanInit /\ [][SanNext]_vars

(***************************************************************************)
(* The suggestion fetcher on its own: one SuggestionFetcher.search call.   *)
(***************************************************************************)
SugMaxLimit == 7

SugQueries == {<<"e","s","p","r","e","s","s","o"," ","d","e","a","l">>, <<>>}

GenIdle ==
    /\ pc = "off"
    /\ topic = <<>>
    /\ variants = 0
    /\ open_links = FALSE
    /\ llm = AnyOf({})
    /\ fetcher = [kind |-> "fixed", items |-> <<>>]
    /\ image_pool = <<>>
    /\ search_log = <<>>
    /\ idx = 0
    /\ attempt = 0
    /\ text = <<>>
    /\ candidate = <<>>
    /\ seen_texts = {}
    /\ results = <<>>
    /\ slot_calls = 0
    /\ total_calls = 0
    /\ suffix_trials = 0
    /\ exhausted = FALSE
    /\ last_call = NoCall

SugInit ==
    /\ sug_pc = "call"
    /\ sug_query \in SugQueries
    /\ sug_limit \in (-1)..SugMaxLimit
    /\ sug_links \in BOOLEAN
    /\ sug_results = <<>>
    /\ GenIdle
    /\ SanIdle

\* lines 64-77: search returns a list
SugSearch ==
    /\ sug_pc = "call"
    /\ ~SampleRaises(sug_limit)
    /\ sug_results' \in SuggestionSearch(sug_query, sug_limit, sug_links)
    /\ sug_pc' = "returned"
    /\ UNCHANGED <<sug_query, sug_limit, sug_links, gen_vars, san_vars>>

\* line 66: random.sample raises, search returns nothing
SugRaise ==
    /\ sug_pc = "call"
    /\ SampleRaises(sug_limit)
    /\ sug_pc' = "raised"
    /\ UNCHANGED <<sug_query, sug_limit, sug_links, sug_results, gen_vars, san_vars>>

SugNext == SugSearch \/ SugRaise

SugSpec == SugInit /\ [][SugNext]_vars

(***************************************************************************)
(* Properties.                                                             *)
(***************************************************************************)
\* the fingerprint of the text of the i-th variant of the result
Fingerprint(i) == normalize_for_uniqueness(results[i].text)
FingerprintsDistinct ==
    \A i, j \in 1..Len(results) : i # j => Fingerprint(i) # Fingerprint(j)
EndsWith(s, suffix) ==
    /\ Len(s) >= Len(suffix)
    /\ SubSeq(s, Len(s) - Len(suffix) + 1, Len(s)) = suffix
\* the text carries the tag or a guard suffix of slot number n (n = idx + 1)
CarriesSuffix(s, n) ==
    \/ EndsWith(s, <<" ", "#">> \o IntToStr(n))
    \/ EndsWith(s, <<" ", MIDDOT, " ", "v">> \o IntToStr(n))
    \/ \E k \in 2..4 :
         EndsWith(s, <<" ", MIDDOT, " ", "v">> \o IntToStr(n) \o <<".">> \o IntToStr(k))
\* the backend returns one and the same non-empty text on every call
SameTextBackend ==
    /\ llm.kind = "any"
    /\ Cardinality(llm.texts) = 1
    /\ <<>> \notin llm.texts

\* C1: whatever the requested count V, the backend and the fetcher do,
\* generate_posts returns exactly max(1, V) variants.
C1_VariantCount ==
    pc = "done" => Len(results) = (IF variants < 1 THEN 1 ELSE variants)
\* a count below 1, a backend that answers the empty string, an empty pool
C1_Witness ==
    /\ pc = "done"
    /\ variants < 1
    /\ llm.texts = {<<>>}
    /\ image_pool = <<>>
    /\ Len(results) = 1

\* C2: in a result in which no slot ran out of suffixes, the fingerprints of
\* the variants' texts are pairwise distinct.
C2_UniqueFingerprints ==
    (pc = "done" /\ ~exhausted) => FingerprintsDistinct
\* three variants from a backend that repeats itself, one of them suffixed
C2_Witness ==
    /\ pc = "done"
    /\ ~exhausted
    /\ Len(results) >= 3
    /\ llm.texts = {DUMMY_TEXT}
    /\ \E i \in 1..Len(results) : EndsWith(results[i].text, <<MIDDOT, " ", "v", "1">>)

\* C3: every variant's text has at most 220 characters, whichever path
\* produced it.
C3_TextWithinLimit ==
    \A i \in 1..Len(results) : Len(results[i].text) <= 220

\* C4: every variant's text is non-empty, also when the backend returns the
\* empty string, or a text with an empty fingerprint, on every call.
C4_NonEmptyText ==
    \A i \in 1..Len(results) : results[i].text # <<>>
\* two variants from the backend that always answers the empty string
C4_Witness ==
    /\ pc = "done"
    /\ llm.texts = {<<>>}
    /\ Len(results) >= 2

\* C5: with a pool of size P > 0, variant i carries the query and the url of
\* pool element i mod P, whatever the slot's text went through.
C5_CyclicImages ==
    (pc = "done" /\ Len(image_pool) > 0) =>
        \A i \in 1..Len(results) :
            LET choice == image_pool[((i - 1) % Len(image_pool)) + 1]
            IN  /\ results[i].image_query = choice.query
                /\ results[i].image_url = choice.url
\* the pool is reused: more variants than pool elements, and some slot needed
\* more than one text call
C5_Witness ==
    /\ pc = "done"
    /\ Len(image_pool) = 2
    /\ image_pool[1] # image_pool[2]
    /\ Len(results) >= 3
    /\ total_calls > Len(results)

\* C6: with an empty pool every variant has image_url None and image_query
\* equal to the topic, and there are still max(1, V) variants.
C6_NoPoolFallback ==
    (pc = "done" /\ image_pool = <<>>) =>
        /\ Len(results) = (IF variants < 1 THEN 1 ELSE variants)
        /\ \A i \in 1..Len(results) :
            /\ results[i].image_url = None
            /\ results[i].image_query = topic
C6_Witness ==
    /\ pc = "done"
    /\ image_pool = <<>>
    /\ Len(results) >= 2

\* C7: generate_posts terminates; each slot makes at least 1 and at most 5
\* text calls and at most 4 suffix trials, the whole call at most
\* 5 * max(1, V) text calls.
C7_CallBounds ==
    /\ slot_calls <= 5
    /\ suffix_trials <= 4
    /\ total_calls <= 5 * (IF variants < 1 THEN 1 ELSE variants)
    /\ (pc \in {"finish", "done"} => slot_calls >= 1)
C7_TerminatesBounded == [](C7_CallBounds) /\ <>(pc = "done")
\* every slot used its five calls
C7_Witness ==
    /\ pc = "done"
    /\ variants >= 2
    /\ slot_calls = 5
    /\ total_calls = 5 * variants

\* C8: with a backend that returns the same non-empty text on every call the
\* variants' fingerprints are pairwise distinct, no slot runs out of suffixes,
\* and every variant after the first carries a disambiguating suffix.
C8_SameTextDisambiguated ==
    (pc = "done" /\ SameTextBackend) =>
        /\ FingerprintsDistinct
        /\ ~exhausted
        /\ \A i \in 2..Len(results) : CarriesSuffix(results[i].text, i)
\* scenario A: the test's backend, two or more variants
C8_Witness ==
    /\ pc = "done"
    /\ llm.texts = {DUMMY_TEXT}
    /\ Len(results) >= 2
    /\ results[2].text # DUMMY_TEXT

\* C9: safe_clean_output(x, n) has at most n characters for n >= 0 and is
\* empty for n <= 0; when it truncates, the result is the first n - 1
\* characters of the cleaned text without their trailing whitespace,
\* followed by one ellipsis.
C9_TruncationLaw ==
    san_pc # "raw" =>
        LET cleaned == CleanUntruncated(san_x)
            body == Take(san_y, Len(san_y) - 1)
        IN  /\ san_n >= 0 => Len(san_y) <= san_n
            /\ san_n <= 0 => san_y = <<>>
            /\ (san_n > 0 /\ Len(cleaned) > san_n) =>
                  /\ san_y # <<>>
                  /\ san_y[Len(san_y)] = ELLIPSIS
                  /\ Len(body) <= san_n - 1
                  /\ body = Take(cleaned, Len(body))
                  /\ (body # <<>> => ~IsSpace(body[Len(body)]))
                  /\ \A k \in (Len(body) + 1)..(san_n - 1) : IsSpace(cleaned[k])
\* a truncation that also dropped trailing whitespace
C9_Witness ==
    /\ san_pc = "once"
    /\ san_n > 1
    /\ Len(CleanUntruncated(san_x)) > san_n
    /\ Len(san_y) < san_n

\* the once-cleaned text has nothing left for a second pass to redact
NoMarker(s) == MarkerEnd(s) = 0
NoArrow(s) == \A p \in 1..Len(s) : ArrowEnd(s, p) = 0
NoPiiOrProfanity(s) ==
    \A p \in 1..Len(s) :
        /\ EmailEnd(s, p) = 0
        /\ PhoneEnd(s, p) = 0
        /\ \A k \in 1..Len(PROFANITY_WORDS) : ~WordAt(s, p, PROFANITY_WORDS[k])
WasTruncated == san_n > 0 /\ Len(CleanUntruncated(san_x)) > san_n

\* C10 as stated: safe_clean_output is idempotent for every input and limit.
C10_Idempotent ==
    san_pc = "twice" => san_z = san_y
\* C10 as amended: a second pass changes nothing when the first result does
\* not begin with a bracketed marker, holds no "-> Example caption:"
\* artefact and, if it was truncated, holds no email-like, phone-like or
\* denylisted pattern.
C10_IdempotentUnlessExposed ==
    (/\ san_pc = "twice"
     /\ NoMarker(san_y)
     /\ NoArrow(san_y)
     /\ (WasTruncated => NoPiiOrProfanity(san_y))) => san_z = san_y
\* an input whose email was redacted inside the text, cleaned twice
C10_Witness ==
    /\ san_pc = "twice"
    /\ NoMarker(san_y)
    /\ NoArrow(san_y)
    /\ ~WasTruncated
    /\ \E p \in 1..Len(san_x) : EmailEnd(san_x, p) > 0
    /\ san_y # san_x
    /\ san_z = san_y

\* url is the placeholder URL line 74 builds for query
IsPlaceholderFor(url, query) ==
    /\ url # None
    /\ url = PLACEHOLDER_PREFIX \o quote_plus(query) \o PLACEHOLDER_SUFFIX

\* C11: for every query and every limit >= 1, SuggestionFetcher.search
\* returns exactly min(limit, 6) entries whose queries are pairwise distinct
\* members of the suggestion vocabulary; every url is None when open_links
\* is false and a placeholder URL, not None, when it is true.
C11_SuggestionContract ==
    (sug_pc = "returned" /\ sug_limit >= 1) =>
        /\ Len(sug_results) = (IF sug_limit < 6 THEN sug_limit ELSE 6)
        /\ \A i \in 1..Len(sug_results) :
            /\ sug_results[i].query \in Range(SUGGESTIONS)
            /\ (~sug_links => sug_results[i].url = None)
            /\ (sug_links => IsPlaceholderFor(sug_results[i].url, sug_results[i].query))
        /\ \A i, j \in 1..Len(sug_results) :
            i # j => sug_results[i].query # sug_results[j].query
\* a limit above the vocabulary's size, links requested
C11_Witness ==
    /\ sug_pc = "returned"
    /\ sug_limit > 6
    /\ sug_links
    /\ Len(sug_results) = 6
    /\ sug_results[1].url # None

\* the slot's text was accepted by one of the diversified attempts (line 90)
AcceptedInAttempt == pc = "finish" /\ attempt < MAX_ATTEMPTS
\* the text of the variant appended by the step
EmittedText == results'[Len(results) + 1].text

\* C12: a text accepted in a diversified attempt is emitted as the variant's
\* text unchanged; the final guard appends its suffix only on a collision
\* with a fingerprint recorded by an earlier slot.
C12_AcceptedEmittedUnchanged ==
    [][AcceptedInAttempt => EmittedText = text]_vars

\* the suffix the k-th trial of slot number n appends
TrialSuffix(n, k) ==
    <<" ", MIDDOT, " ", "v">> \o IntToStr(n)
        \o (CASE k = 1 -> <<>>
              [] k = 2 -> <<".", "2">>
              [] k = 3 -> <<".", "3">>
              [] k = 4 -> <<".", "4">>)
\* the final guard is about to run on a text whose fingerprint is taken
GuardCollides == pc = "finish" /\ normalize_for_uniqueness(text) \in seen_texts
\* the trials whose candidate has an unused fingerprint
FreshTrials ==
    {k \in 1..4 :
        normalize_for_uniqueness(text \o TrialSuffix(idx + 1, k)) \notin seen_texts}
FirstFreshTrial == CHOOSE k \in FreshTrials : \A j \in FreshTrials : k <= j
\* the step emits the candidate of trial k and records its fingerprint
EmitsTrial(k) ==
    /\ EmittedText = text \o TrialSuffix(idx + 1, k)
    /\ seen_texts' = seen_texts
           \cup {normalize_for_uniqueness(text \o TrialSuffix(idx + 1, k))}

\* C13 as stated: the guard emits the first of the candidates " . v<n>",
\* " . v<n>.2", " . v<n>.3", " . v<n>.4" whose fingerprint is unused and, if
\* all four collide, the ".4" candidate, whose fingerprint it records.
C13_LastCandidateOnExhaustion ==
    [][GuardCollides =>
          IF FreshTrials # {} THEN EmitsTrial(FirstFreshTrial) ELSE EmitsTrial(4)]_vars
\* C13 as amended: the guard emits the first candidate whose fingerprint is
\* unused and records that fingerprint; if all four collide, the slot's text
\* is emitted without any suffix and no fingerprint is added.
C13_UnsuffixedOnExhaustion ==
    [][GuardCollides =>
          IF FreshTrials # {} THEN EmitsTrial(FirstFreshTrial)
          ELSE EmittedText = text /\ seen_texts' = seen_texts]_vars
\* the fifth slot's four candidates all collided and its text went out bare
C13_Witness ==
    /\ pc = "done"
    /\ exhausted
    /\ suffix_trials = 4
    /\ Len(results) = 5
    /\ results[5].text = SHORT_X
    /\ \A k \in 1..4 :
           normalize_for_uniqueness(SHORT_X \o TrialSuffix(5, k)) \in seen_texts

\* the step calls llm.generate_text
TextCall == total_calls' = total_calls + 1
\* the fingerprint of the candidate the step's attempt produced
AttemptFingerprint == normalize_for_uniqueness(candidate')
AttemptSucceeds == AttemptFingerprint # <<>> /\ AttemptFingerprint \notin seen_texts
\* a diversified call is attempt number `attempt` of the slot, made while no
\* earlier attempt of the slot has succeeded, with budget 140 and limit 220;
\* a success ends the attempts, a failure leads to the next attempt
DiversifiedCallInOrder ==
    (TextCall /\ last_call'.kind = "diversified") =>
        /\ pc = "attempt"
        /\ attempt \in 0..3
        /\ slot_calls = attempt
        /\ text = <<>>
        /\ last_call'.alt = attempt
        /\ last_call'.cue = idx % 10
        /\ last_call'.max_tokens = 140
        /\ Len(candidate') <= 220
        /\ IF AttemptSucceeds
           THEN /\ text' = candidate'
                /\ seen_texts' = seen_texts \cup {AttemptFingerprint}
                /\ pc' = "after_attempts"
           ELSE /\ text' = <<>>
                /\ seen_texts' = seen_texts
                /\ attempt' = attempt + 1
                /\ pc' = (IF attempt = 3 THEN "after_attempts" ELSE "attempt")
\* a generic call is the fifth call of a slot whose four attempts all
\* failed, with budget 120 and limit 210; its text carries the slot's tag
\* and reaches the final guard with its fingerprint not recorded
FallbackCallAfterFourFailures ==
    (TextCall /\ last_call'.kind = "generic") =>
        /\ pc = "after_attempts"
        /\ attempt = 4
        /\ slot_calls = 4
        /\ text = <<>>
        /\ last_call'.max_tokens = 120
        /\ EndsWith(text', <<" ", "#">> \o IntToStr(idx + 1))
        /\ Len(text') <= 210 + Len(<<" ", "#">> \o IntToStr(idx + 1))
        /\ seen_texts' = seen_texts
        /\ pc' = "finish"
\* once the attempts are over, the fallback call is the next step if all
\* four failed, and no call is made if one succeeded
FallbackExactlyWhenNeeded ==
    pc = "after_attempts" =>
        /\ (attempt = 4) = (text = <<>>)
        /\ (attempt = 4 => TextCall /\ last_call'.kind = "generic")
        /\ (attempt < 4 => ~TextCall /\ text' = text /\ pc' = "finish")

\* C14: within a slot the diversified attempts are made in the order
\* 0, 1, 2, 3 (budget 140, sanitized to 220) and stop at the first whose
\* fingerprint is non-empty and unused; the generic fallback call (budget
\* 120, sanitized to 210, tagged " #<slot+1>") is made exactly when all four
\* attempts failed, and its fingerprint is not recorded before the final
\* guard runs.
C14_AttemptsThenFallback ==
    [][/\ DiversifiedCallInOrder
       /\ FallbackCallAfterFourFailures
       /\ FallbackExactlyWhenNeeded]_vars
\* a later slot whose four attempts failed on a collision, after its
\* fallback call
C14_Witness ==
    /\ pc = "finish"
    /\ idx >= 1
    /\ slot_calls = 5
    /\ last_call.kind = "generic"
    /\ last_call.max_tokens = 120
    /\ candidate # <<>>
    /\ normalize_for_uniqueness(candidate) \in seen_texts
    /\ normalize_for_uniqueness(text) \notin seen_texts

\* every variant emitted so far has its text's fingerprint in the set
EmittedFingerprintsRecorded ==
    \A i \in 1..Len(results) : Fingerprint(i) \in seen_texts
\* a call begins with an empty set and no variant
StartsEmpty == pc = "search" => seen_texts = {} /\ results = <<>>
\* while a call runs, a step removes no fingerprint
NoFingerprintRemoved == pc # "done" => seen_texts \subseteq seen_texts'

\* C15: at the end of every slot the uniqueness set holds the fingerprint of
\* the text emitted for each slot so far; during a call the set only grows;
\* every call starts with the empty set, whatever an earlier call recorded.
C15_SeenTextsPerCall ==
    /\ [](EmittedFingerprintsRecorded /\ StartsEmpty)
    /\ [][NoFingerprintRemoved]_vars
\* a finished call of five slots, one of which ran out of suffixes, with
\* more fingerprints recorded than variants emitted
C15_Witness ==
    /\ pc = "done"
    /\ Len(results) = 5
    /\ exhausted
    /\ EmittedFingerprintsRecorded
    /\ Cardinality(seen_texts) > Len(results)

\* the one call the fetcher is to receive
ExpectedSearch ==
    [query |-> topic,
     limit |-> (IF variants < 1 THEN 1 ELSE variants),
     open_links |-> open_links]
\* no fetcher call and no text call before the fetch; one fetcher call, the
\* expected one, from then on
SearchedOnceFirst ==
    /\ pc = "search" => search_log = <<>> /\ total_calls = 0
    /\ pc # "search" => search_log = <<ExpectedSearch>>
\* once fetched, the pool stays as it is and the fetcher is not called
PoolFrozen == pc # "search" => image_pool' = image_pool /\ search_log' = search_log

\* C16: during one generate_posts call the image fetcher is called exactly
\* once, before any text call, with the topic as query, max(1, V) as limit
\* and the caller's open_links; the pool is never refetched or modified
\* while the slots are generated.
C16_SingleSearch ==
    /\ [](SearchedOnceFirst)
    /\ [][PoolFrozen]_vars
\* three slots served from a pool of two that the fetcher cut to its limit,
\* with links requested
C16_Witness ==
    /\ pc = "done"
    /\ fetcher.kind = "limited"
    /\ open_links
    /\ variants = 3
    /\ Len(image_pool) = 2
    /\ Len(results) = 3
    /\ total_calls >= 3
    /\ search_log = <<ExpectedSearch>>

====
